---- MODULE Spec2Model ----
(***************************************************************************)
(* A model of the ContextVM TypeScript SDK transports: the Nostr server    *)
(* transport (sessions, id rewriting, response and notification routing),  *)
(* the Nostr client transport (pending request ids, inbound correlation),  *)
(* and the shared send helper that decides between a cleartext kind-25910  *)
(* event and a kind-1059 gift wrap.                                        *)
(*                                                                         *)
(* Strings of the program (public keys, event ids, JSON-RPC ids, progress  *)
(* tokens) are TLA+ strings.  An event id is the hash of the signed event: *)
(* every event signed by a transport gets a fresh id; an inner event that  *)
(* arrives inside a gift wrap is parsed, never verified, and so carries    *)
(* whatever id and author its sender wrote.                                *)
(***************************************************************************)
EXTENDS Integers, Sequences, FiniteSets, TLC

\* ------------------------------------------------------------------ bounds
\* messages the client transport of key "A" sends
MaxSends == 2
\* events the holder of key "B" publishes
MaxRaw == 2
\* events published by others than the server, all keys together
MaxEvents == 2
\* the same in the deployment without encryption
MaxEventsClear == 3
\* session timeouts that elapse
MaxTicks == 2
\* progress notifications the local MCP server sends for one request
MaxProgress == 2
\* notifications the local MCP server broadcasts
MaxBroadcasts == 1
\* discovery events the server publishes
MaxDiscovery == 2
\* milliseconds of the relay pool's clock
MaxTime == 50000
\* runs of resubscribeAll that are counted
MaxCycles == 2
\* entries of the relay pool's subscriptions array
MaxSubscriptions == 2
\* events the relays hand to the server a second time
MaxRedeliveries == 1

\* --------------------------------------------------------------- constants
CTXVM_MESSAGES_KIND == 25910
GIFT_WRAP_KIND == 1059
SERVER_ANNOUNCEMENT_KIND == 11316
TOOLS_LIST_KIND == 11317
RESOURCES_LIST_KIND == 11318
RESOURCETEMPLATES_LIST_KIND == 11319
PROMPTS_LIST_KIND == 11320
DefaultSessionTimeoutMs == 300000

EncryptionMode == {"optional", "required", "disabled"}

ServerKey == "S"
ClientKeys == {"A", "B"}
EphemeralKey == "K"

None == "none"

\* The id of the k-th event a key signs.  No code path reads the id of an
\* event the server signed.
ClientIdNames == <<"a1", "a2", "a3", "a4">>
RawIdNames == <<"b1", "b2", "b3", "b4">>
ServerEventId == "s0"

\* ------------------------------------------------------- JSON-RPC messages
\* One record shape for every JSON value that travels as event content.
\*   t      "req" | "notif" | "resp" | "null" (what the decoder
\*          returns for content that is not JSON)
\*   id     the JSON-RPC id, None when absent
\*   method the method of a request or notification
\*   tok    params._meta.progressToken, None when absent
\*   res    "init" when result has the shape of an InitializeResult,
\*          "large" when result makes the message longer than 1 MiB
Msg(t, id, method, tok, res) ==
    [t |-> t, id |-> id, method |-> method, tok |-> tok, res |-> res]

Request(id, method, tok) == Msg("req", id, method, tok, None)
Notification(method, tok) == Msg("notif", None, method, tok, None)
Response(id, res) == Msg("resp", id, None, None, res)
NullMsg == Msg("null", None, None, None, None)

MAX_MESSAGE_SIZE == 1024 * 1024

\* the bytes of JSON.stringify(message): 1 KiB, or one byte more than 1 MiB
SerializedSize(message) ==
    IF message.res = "large"
    THEN MAX_MESSAGE_SIZE + 1
    ELSE MAX_MESSAGE_SIZE \div 1024

validateMessageSize(message) == SerializedSize(message) <= MAX_MESSAGE_SIZE

isJSONRPCRequest(m) == m.t = "req"
isJSONRPCNotification(m) == m.t = "notif"
isJSONRPCResponse(m) == m.t = "resp"
IsInitializeResult(m) == m.t = "resp" /\ m.res = "init"

\* ----------------------------------------------------------------- events
\* tags are the p tag and the e tag (None when the event has none), plus
\* common, TRUE when the server's common discovery tags were appended.
\* signer is the key that really produced the event; a signature verifies
\* exactly when signer = pubkey.
Event(id, pubkey, kind, p, e, common, content, signer) ==
    [id |-> id, pubkey |-> pubkey, kind |-> kind, p |-> p, e |-> e,
     common |-> common, content |-> content, signer |-> signer]

\* mcpToNostrEvent followed by signer.signEvent
mcpToNostrEvent(message, pubkey, kind, p, e, common) ==
    [pubkey |-> pubkey, kind |-> kind, p |-> p, e |-> e, common |-> common,
     content |-> <<"json", message>>]

signEvent(unsigned, id, key) ==
    Event(id, unsigned.pubkey, unsigned.kind, unsigned.p, unsigned.e,
          unsigned.common, unsigned.content, key)

\* nostrEventToMcpMessage: JSON.parse of the content, null when it throws
nostrEventToMcpMessage(event) ==
    IF event.content[1] = "json" THEN event.content[2] ELSE NullMsg

getNostrEventTag(event, tagName) ==
    IF tagName = "p" THEN event.p ELSE event.e

\* encryptMessage: a kind-1059 event authored by a throwaway key, one p tag
\* naming the recipient, content readable by the recipient only.
encryptMessage(event, recipientPublicKey) ==
    Event(None, EphemeralKey, GIFT_WRAP_KIND, recipientPublicKey, None, FALSE,
          <<"nip44", recipientPublicKey, event>>, EphemeralKey)

\* decryptMessage succeeds for the key the content was encrypted to and
\* yields the JSON of the inner event.
CanDecrypt(event, key) ==
    /\ event.kind = GIFT_WRAP_KIND
    /\ event.content[1] = "nip44"
    /\ event.content[2] = key

decryptMessage(event) == event.content[3]

\* ------------------------------------------------ pendingRequests, a Map
\* A JavaScript Map keeps insertion order: a sequence of key/value entries.
MapHas(m, k) == \E i \in DOMAIN m : m[i].k = k

MapGet(m, k) ==
    IF MapHas(m, k) THEN m[CHOOSE i \in DOMAIN m : m[i].k = k].v ELSE None

MapSet(m, k, v) ==
    IF MapHas(m, k)
    THEN [i \in DOMAIN m |-> IF m[i].k = k THEN [k |-> k, v |-> v] ELSE m[i]]
    ELSE Append(m, [k |-> k, v |-> v])

MapDelete(m, k) == SelectSeq(m, LAMBDA en : en.k # k)

VARIABLES
    serverMode,        \* encryptionMode of the server transport
    allowedPublicKeys, \* the server's allowlist, {} when not configured
    clientSessions,    \* Map<pubkey, ClientSession>, in insertion order
    nextSid,           \* number of session objects created so far
    decrypting,        \* gift wraps the server is awaiting decryptMessage for
    cleanups,          \* handleResponse calls awaiting sendMcpMessage
    serverErrors,      \* number of onerror calls of the server transport
    mcpInbox,          \* what the server transport handed to onmessage
    broadcasts,        \* notifications the local MCP server has broadcast
    clientMode,        \* encryptionMode of the client transport of key "A"
    pendingRequestIds, \* the client transport's set of pending event ids
    publishing,        \* client sends awaiting the end of sendMcpMessage
    clientInbox,       \* what the client transport handed to onmessage
    serverInitializeEvent, \* the client's stored event, NoEvent when unset
    wire,              \* every event published to the relays
    now,               \* Date.now()
    serverLife,        \* "started", "closing" (inside close()) or "closed"
    redelivered,       \* events the relays handed to the server once more
    isInitialized,     \* the server transport's own isInitialized flag
    announcePc,        \* where getAnnouncementData stands
    announced,         \* what the transport itself handed to onmessage
    gatewayPc,         \* where NostrMCPGateway.start stands
    relayStates,       \* SimpleRelayPool.relayStates
    connected,         \* pool.listConnectionStatus()
    handlers,          \* handleDisconnectedRelay calls in flight
    timerAt,           \* when reconnectTimer fires, NoTimer when cleared
    subscriptions,     \* SimpleRelayPool.subscriptions
    issued,            \* open subscriptions of the underlying pool
    resubscribes,      \* resubscribeAll runs so far (saturating)
    published,         \* how the last SimpleRelayPool.publish ended
    poolLife           \* "connected", "disconnected" after disconnect(),
                       \* "reconnected" after the connect() that follows

cfgVars == <<serverMode, allowedPublicKeys, clientMode>>
srvVars == <<clientSessions, nextSid, decrypting, cleanups, serverErrors>>
mcpVars == <<mcpInbox, broadcasts>>
cliVars ==
    <<pendingRequestIds, publishing, clientInbox, serverInitializeEvent>>
bootVars == <<isInitialized, announcePc, announced, gatewayPc>>
poolVars ==
    <<relayStates, connected, handlers, timerAt, subscriptions, issued,
      resubscribes, published, poolLife>>
lifeVars == <<serverLife, redelivered>>
extVars == <<lifeVars, bootVars, poolVars>>
vars == <<cfgVars, srvVars, mcpVars, cliVars, wire, now, extVars>>

ClientKey == "A"

\* The event a gift wrap carries, or the event itself.
InnerOf(event) ==
    IF event.kind = GIFT_WRAP_KIND THEN decryptMessage(event) ELSE event

\* -------------------------------------------------------- base transport
unencryptedKinds ==
    {SERVER_ANNOUNCEMENT_KIND, TOOLS_LIST_KIND, RESOURCES_LIST_KIND,
     RESOURCETEMPLATES_LIST_KIND, PROMPTS_LIST_KIND}

\* A send helper that wraps only what its caller asks to have wrapped.
shouldEncryptOnRequest(encryptionMode, kind, forceEncryption) ==
    /\ forceEncryption
    /\ encryptionMode # "disabled"

shouldEncrypt(encryptionMode, kind, forceEncryption) ==
    /\ (kind \notin unencryptedKinds \/ forceEncryption)
    /\ encryptionMode # "disabled"

createSignedNostrEvent(key, message, kind, p, e, common, id) ==
    signEvent(mcpToNostrEvent(message, key, kind, p, e, common), id, key)

\* sendMcpMessage: the event handed to publishEvent.  The id it returns is
\* the id of the signed event, also when the event goes out gift-wrapped.
sendMcpMessage(encryptionMode, key, message, recipientPublicKey, kind, p, e, common, forceEncryption, id) ==
    LET event == createSignedNostrEvent(key, message, kind, p, e, common, id)
    IN  IF shouldEncrypt(encryptionMode, kind, forceEncryption)
        THEN encryptMessage(event, recipientPublicKey)
        ELSE event

createRecipientTags(recipientPubkey) == [p |-> recipientPubkey, e |-> None]

createResponseTags(recipientPubkey, originalEventId) ==
    [p |-> recipientPubkey, e |-> originalEventId]

\* ------------------------------------------------------ server transport
SessionIndex(sessions, pk) ==
    IF \E i \in DOMAIN sessions : sessions[i].pk = pk
    THEN CHOOSE i \in DOMAIN sessions : sessions[i].pk = pk
    ELSE 0

\* getOrCreateClientSession followed by session.lastActivity = now.  sid
\* tells session objects apart: a session created again after a sweep is
\* another object than the one an earlier call still holds.
getOrCreateClientSession(sessions, clientPubkey, time, isEncrypted, sid) ==
    LET i == SessionIndex(sessions, clientPubkey)
    IN  IF i = 0
        THEN Append(sessions,
                    [pk |-> clientPubkey, sid |-> sid, isInitialized |-> FALSE,
                     isEncrypted |-> isEncrypted, lastActivity |-> time,
                     pendingRequests |-> <<>>])
        ELSE [sessions EXCEPT ![i].isEncrypted = isEncrypted,
                              ![i].lastActivity = time]

\* handleIncomingRequest: the session's pendingRequests afterwards
handleIncomingRequest(pendingRequests, eventId, request) ==
    LET stored == MapSet(pendingRequests, eventId, request.id)
    IN  IF request.tok # None
        THEN MapSet(stored, request.tok, eventId)
        ELSE stored

\* authorizeAndProcessEvent: the sessions afterwards
SessionsAfterEvent(sessions, event, isEncrypted, sid) ==
    LET mcpMessage == nostrEventToMcpMessage(event)
        created == getOrCreateClientSession(sessions, event.pubkey, now,
                                            isEncrypted, sid)
        i == SessionIndex(created, event.pubkey)
    IN  IF isJSONRPCRequest(mcpMessage)
        THEN [created EXCEPT ![i].pendingRequests =
                 handleIncomingRequest(@, event.id, mcpMessage)]
        ELSE IF /\ isJSONRPCNotification(mcpMessage)
                /\ mcpMessage.method = "notifications/initialized"
        THEN [created EXCEPT ![i].isInitialized = TRUE]
        ELSE created

\* authorizeAndProcessEvent: what onmessage receives (the request carries
\* the event id as its id)
MessageAfterEvent(event) ==
    LET mcpMessage == nostrEventToMcpMessage(event)
    IN  IF isJSONRPCRequest(mcpMessage)
        THEN [mcpMessage EXCEPT !.id = event.id]
        ELSE mcpMessage

IsAuthorized(event) ==
    allowedPublicKeys = {} \/ event.pubkey \in allowedPublicKeys

\* What the local MCP server holds of a message it was handed: the message,
\* the event that carried it, whether that event came gift-wrapped, whether
\* the server has answered, and how many progress notifications it sent.
Delivered(msg, event, wrapped) ==
    [msg |-> msg, ev |-> event, wrapped |-> wrapped, answered |-> FALSE,
     progress |-> 0]

\* A transport that opens a session for and hands on whatever an authorized
\* event carries.
authorizeAndProcessEventUnparsed(event, isEncrypted) ==
    IF ~IsAuthorized(event)
    THEN UNCHANGED <<clientSessions, nextSid, mcpInbox>>
    ELSE /\ clientSessions' = SessionsAfterEvent(clientSessions, event,
                                                 isEncrypted, nextSid + 1)
         /\ nextSid' = IF SessionIndex(clientSessions, event.pubkey) = 0
                       THEN nextSid + 1
                       ELSE nextSid
         /\ mcpInbox' = mcpInbox \cup
                {Delivered(MessageAfterEvent(event), event, isEncrypted)}

\* authorizeAndProcessEvent(event, isEncrypted)
authorizeAndProcessEvent(event, isEncrypted) ==
    IF ~IsAuthorized(event) \/ nostrEventToMcpMessage(event) = NullMsg
    THEN UNCHANGED <<clientSessions, nextSid, mcpInbox>>
    ELSE /\ clientSessions' = SessionsAfterEvent(clientSessions, event,
                                                 isEncrypted, nextSid + 1)
         /\ nextSid' = IF SessionIndex(clientSessions, event.pubkey) = 0
                       THEN nextSid + 1
                       ELSE nextSid
         /\ mcpInbox' = mcpInbox \cup
                {Delivered(MessageAfterEvent(event), event, isEncrypted)}

\* handleResponse up to its await: the session that holds the id, in the
\* order of the session map
ResponseTarget(sessions, nostrEventId) ==
    IF \E i \in DOMAIN sessions :
           MapHas(sessions[i].pendingRequests, nostrEventId)
    THEN CHOOSE i \in DOMAIN sessions :
           /\ MapHas(sessions[i].pendingRequests, nostrEventId)
           /\ \A j \in 1..(i - 1) :
                  ~MapHas(sessions[j].pendingRequests, nostrEventId)
    ELSE 0

\* the event handleResponse publishes for a response of the local server
ResponseEvent(sessions, response, id) ==
    LET i == ResponseTarget(sessions, response.id)
        session == sessions[i]
        originalRequestId == MapGet(session.pendingRequests, response.id)
        tags == createResponseTags(session.pk, response.id)
    IN  sendMcpMessage(serverMode, ServerKey,
                       [response EXCEPT !.id = originalRequestId],
                       session.pk, CTXVM_MESSAGES_KIND, tags.p, tags.e,
                       IsInitializeResult(response) /\ session.isEncrypted,
                       session.isEncrypted, id)

\* handleResponse after its await: delete the id, then the first entry
\* whose value is the id
CleanPending(pendingRequests, nostrEventId) ==
    LET deleted == MapDelete(pendingRequests, nostrEventId)
        hits == {i \in DOMAIN deleted : deleted[i].v = nostrEventId}
    IN  IF hits = {}
        THEN deleted
        ELSE MapDelete(deleted,
                 deleted[CHOOSE i \in hits : \A j \in hits : i <= j].k)

\* cleanupInactiveSessions(timeoutMs = 300000)
cleanupInactiveSessions(sessions) ==
    SelectSeq(sessions,
        LAMBDA s : ~(now - s.lastActivity > DefaultSessionTimeoutMs))

\* handleNotification for a progress notification: the session that has
\* the token, in the order of the session map
ProgressTarget(sessions, token) ==
    IF \E i \in DOMAIN sessions : MapHas(sessions[i].pendingRequests, token)
    THEN CHOOSE i \in DOMAIN sessions :
           /\ MapHas(sessions[i].pendingRequests, token)
           /\ \A j \in 1..(i - 1) :
                  ~MapHas(sessions[j].pendingRequests, token)
    ELSE 0

\* sendNotification(clientPubkey, notification, correlatedEventId)
sendNotification(session, notification, correlatedEventId, id) ==
    LET tags == createRecipientTags(session.pk)
    IN  sendMcpMessage(serverMode, ServerKey, notification, session.pk,
                       CTXVM_MESSAGES_KIND, tags.p, correlatedEventId, FALSE,
                       session.isEncrypted, id)

\* ------------------------------------------------------------ the wire
\* A published event, who published it ("client", "server" or "raw"), for
\* an event of the server the event that carried the request it belongs
\* to, a serial number among the publications of the same origin, and the
\* forceEncryption argument sendMcpMessage was called with.
NoEvent ==
    Event(None, None, 0, None, None, FALSE, <<"none", NullMsg>>, None)

Published(event, by, re, n, force) ==
    [ev |-> event, by |-> by, re |-> re, n |-> n, force |-> force]

CountBy(by) == Cardinality({w \in wire : w.by = by})

\* number of events published by others than the server
Incoming == Cardinality({w \in wire : w.by # "server"})

Subscribed(event, key) ==
    /\ event.p = key
    /\ event.kind \in {CTXVM_MESSAGES_KIND, GIFT_WRAP_KIND}

\* ids that can be read off the relays or that the publisher made itself
KnownIds ==
    {w.ev.id : w \in {x \in wire : /\ x.ev.kind = CTXVM_MESSAGES_KIND
                                   /\ x.by # "server"}}
    \cup {InnerOf(w.ev).id : w \in {x \in wire : x.by = "raw"}}

\* ------------------------------------------------------------ relay pool
Relays == {"r1", "r2"}

Filters == {"f1", "f2"}

maxRetries == 5

InitialReconnectInterval == 1000

MaxReconnectInterval == 30000

ReconnectCheckMs == 5000

ConnectionTimeoutMs == 5000

NoTimer == 0 - 1

Min(a, b) == IF a < b THEN a ELSE b

\* The constructor's entry of relayStates (also what disconnect() resets
\* an entry to)
InitialRelayState ==
    [reconnectInterval |-> InitialReconnectInterval, retryCount |-> 0,
     isReconnecting |-> FALSE]

\* handleDisconnectedRelay: whether the call gets past its two guards
PassesGuards(relayState) ==
    ~relayState.isReconnecting /\ relayState.retryCount < maxRetries

\* handleDisconnectedRelay: "Mark as reconnecting and increment retry count"
MarkReconnecting(relayState) ==
    [relayState EXCEPT !.isReconnecting = TRUE, !.retryCount = @ + 1]

\* handleDisconnectedRelay up to its first await: the entry of relayStates
\* afterwards.  A call that need not wait goes on to the connection attempt.
StateAfterCall(relayState) ==
    IF /\ PassesGuards(relayState)
       /\ relayState.reconnectInterval <= InitialReconnectInterval
    THEN MarkReconnecting(relayState)
    ELSE relayState

\* handleDisconnectedRelay up to its first await: the calls left in flight,
\* asleep for the backoff or awaiting ensureRelay
CallsStarted(urls, states, time) ==
    {[url |-> url,
      pc |-> IF states[url].reconnectInterval > InitialReconnectInterval
             THEN "sleep" ELSE "connect",
      currentInterval |-> states[url].reconnectInterval,
      at |-> IF states[url].reconnectInterval > InitialReconnectInterval
             THEN time + states[url].reconnectInterval
             ELSE time + ConnectionTimeoutMs] :
        url \in {u \in urls : PassesGuards(states[u])}}

\* the catch branch: the interval after a failed attempt
BackoffAfterFailure(currentInterval) ==
    Min(currentInterval * 2, MaxReconnectInterval)

\* How many entries of the subscriptions array have these filters.
Registered(subs, filters) ==
    Cardinality({i \in DOMAIN subs : subs[i] = filters})

\* A resubscription that leaves the earlier closers open.
resubscribeAllKeepingOld(subs, open) ==
    [f \in Filters |-> open[f] + Registered(subs, f)]

\* resubscribeAll: the open subscriptions of the underlying pool afterwards;
\* each entry's closer is closed and a subscription with the entry's filters
\* and callbacks is opened in its place
resubscribeAll(subs, open) ==
    [f \in Filters |-> (open[f] - Registered(subs, f)) + Registered(subs, f)]

\* SimpleRelayPool.publish: Promise.all over one promise per relay rejects
\* as soon as one of them rejects
SimplePublishRaises(accepted) == accepted # Relays

\* ApplesauceRelayPool.publish: responses that are not ok are logged
ApplesaucePublishRaises(accepted) == FALSE

NoPublish == [pool |-> "none", accepted |-> {}, raised |-> FALSE]

\* The pool after its constructor and a connect() that reached every relay.
PoolInit ==
    /\ relayStates = [r \in Relays |-> InitialRelayState]
    /\ connected = [r \in Relays |-> TRUE]
    /\ handlers = {}
    /\ timerAt = ReconnectCheckMs
    /\ subscriptions = <<>>
    /\ issued = [f \in Filters |-> 0]
    /\ resubscribes = 0
    /\ published = NoPublish
    /\ poolLife = "connected"

\* ------------------------------------------------------------- actions
\* A relay hands a published event at once to the transport whose
\* subscription filter ({kinds: [25910, 1059], "#p": [own key]}) it
\* matches, so a step that publishes an event includes the subscriber's
\* processIncomingEvent up to its first await.
Init ==
    /\ serverMode \in EncryptionMode
    /\ clientMode \in EncryptionMode
    /\ allowedPublicKeys \in {{}, {ClientKey}}
    /\ clientSessions = <<>>
    /\ nextSid = 0
    /\ decrypting = {}
    /\ cleanups = {}
    /\ serverErrors = 0
    /\ mcpInbox = {}
    /\ broadcasts = 0
    /\ pendingRequestIds = {}
    /\ publishing = {}
    /\ clientInbox = <<>>
    /\ serverInitializeEvent = NoEvent
    /\ wire = {}
    /\ now = 0
    /\ serverLife = "started"
    /\ redelivered = 0
    /\ isInitialized = FALSE
    /\ announcePc = "idle"
    /\ announced = <<>>
    /\ gatewayPc = "idle"
    /\ PoolInit

\* A server that takes every inbound event, whatever its encryption mode.
ServerReceiveAnyMode(event) ==
    IF event.kind = GIFT_WRAP_KIND
    THEN /\ decrypting' = decrypting \cup {event}
         /\ UNCHANGED <<clientSessions, nextSid, mcpInbox>>
    ELSE /\ authorizeAndProcessEvent(event, FALSE)
         /\ UNCHANGED decrypting

\* NostrServerTransport.processIncomingEvent up to the await of the
\* decryption (a cleartext event is processed to the end)
ServerReceive(event) ==
    IF event.kind = GIFT_WRAP_KIND
    THEN /\ decrypting' = IF serverMode = "disabled"
                          THEN decrypting
                          ELSE decrypting \cup {event}
         /\ UNCHANGED <<clientSessions, nextSid, mcpInbox>>
    ELSE /\ IF serverMode = "required"
            THEN UNCHANGED <<clientSessions, nextSid, mcpInbox>>
            ELSE authorizeAndProcessEvent(event, FALSE)
         /\ UNCHANGED decrypting

\* What the relays do with an event that names the server: it reaches the
\* server transport while that transport's subscription is open.
ToServer(event) ==
    IF serverLife = "started"
    THEN ServerReceive(event)
    ELSE UNCHANGED <<clientSessions, nextSid, decrypting, mcpInbox>>

\* handleEncryptedEvent after the await: the inner event is parsed and
\* processed, or onerror is called when decryption or parsing threw
ServerDecrypted(event) ==
    /\ event \in decrypting
    /\ decrypting' = decrypting \ {event}
    /\ IF CanDecrypt(event, ServerKey)
       THEN /\ authorizeAndProcessEvent(decryptMessage(event), TRUE)
            /\ UNCHANGED serverErrors
       ELSE /\ serverErrors' = serverErrors + 1
            /\ UNCHANGED <<clientSessions, nextSid, mcpInbox>>
    /\ UNCHANGED <<cfgVars, extVars, cleanups, broadcasts, cliVars, wire, now>>

\* NostrClientTransport.processIncomingEvent: whether the message of the
\* (inner) event reaches onmessage
ClientDelivers(nostrEvent) ==
    LET mcpMessage == nostrEventToMcpMessage(nostrEvent)
        eTag == getNostrEventTag(nostrEvent, "e")
    IN  /\ mcpMessage # NullMsg
        /\ IF eTag # None
           THEN eTag \in pendingRequestIds
           ELSE mcpMessage.method # None

\* NostrClientTransport.processIncomingEvent
ClientReceive(event) ==
    LET readable == event.kind # GIFT_WRAP_KIND \/ CanDecrypt(event, ClientKey)
        nostrEvent == InnerOf(event)
    IN  /\ serverInitializeEvent' =
               IF /\ readable
                  /\ serverInitializeEvent = NoEvent
                  /\ IsInitializeResult(nostrEventToMcpMessage(nostrEvent))
               THEN nostrEvent
               ELSE serverInitializeEvent
        /\ IF readable /\ ClientDelivers(nostrEvent)
           THEN /\ clientInbox' = Append(clientInbox,
                        [msg |-> nostrEventToMcpMessage(nostrEvent),
                         ev |-> nostrEvent,
                         wrapped |-> event.kind = GIFT_WRAP_KIND])
                /\ pendingRequestIds' =
                        pendingRequestIds
                            \ {getNostrEventTag(nostrEvent, "e")}
           ELSE UNCHANGED <<clientInbox, pendingRequestIds>>

\* What the relays do with the events a server step published: the one
\* that names the client, if any, reaches the client transport.
ToClient(events) ==
    LET mine == {w \in events : Subscribed(w.ev, ClientKey)}
    IN  IF mine = {}
        THEN UNCHANGED <<clientInbox, pendingRequestIds,
                         serverInitializeEvent>>
        ELSE ClientReceive((CHOOSE w \in mine : TRUE).ev)

ClientMessages ==
    {Request("j1", "initialize", None),
     Request("j1", "tools/call", "t1"),
     Request("j2", "tools/call", "t1"),
     Request("j2", "tools/call", None),
     Notification("notifications/initialized", None)}

\* NostrClientTransport.send up to the await of the publish: the event is
\* signed, wrapped when the mode says so, and handed to the relays.
ClientSend(message, cap) ==
    /\ CountBy("client") < MaxSends
    /\ Incoming < cap
    /\ LET tags == createRecipientTags(ServerKey)
           id == ClientIdNames[CountBy("client") + 1]
           event == sendMcpMessage(clientMode, ClientKey, message, ServerKey,
                                   CTXVM_MESSAGES_KIND, tags.p, tags.e, FALSE,
                                   FALSE, id)
       IN  /\ wire' = wire \cup {Published(event, "client", NoEvent,
                                           CountBy("client") + 1, FALSE)}
           /\ ToServer(event)
           /\ publishing' = publishing \cup {id}
    /\ UNCHANGED <<cfgVars, extVars, cleanups, serverErrors, broadcasts,
                   pendingRequestIds, clientInbox, serverInitializeEvent,
                   now>>

\* NostrClientTransport.send after the await: the id enters the pending set
ClientPublished(eventId) ==
    /\ eventId \in publishing
    /\ publishing' = publishing \ {eventId}
    /\ pendingRequestIds' = pendingRequestIds \cup {eventId}
    /\ UNCHANGED <<cfgVars, extVars, srvVars, mcpVars, clientInbox,
                   serverInitializeEvent, wire, now>>

\* ----------------------------------------- other software on the relays
\* The holder of key "B" publishes events made without the SDK.  Relays
\* and pools check the id and signature of what they carry, so a cleartext
\* event is authored by "B" under a fresh id; nothing checks the event
\* inside a gift wrap, which can state any author and any id.
RawKey == "B"

RawRequests ==
    {Request("j2", "tools/call", tok) : tok \in {None, "t1"} \cup KnownIds}

RawContents ==
    {<<"json", m>> : m \in RawRequests
                       \cup {Notification("notifications/initialized", None)}}
    \cup {<<"text", NullMsg>>}

RawToServer(wrapped, pubkey, id, content, cap) ==
    /\ CountBy("raw") < MaxRaw
    /\ Incoming < cap
    /\ ~wrapped => pubkey = RawKey /\ id = RawIdNames[CountBy("raw") + 1]
    /\ LET inner == Event(id, pubkey, CTXVM_MESSAGES_KIND, ServerKey, None,
                          FALSE, content, RawKey)
           event == IF wrapped THEN encryptMessage(inner, ServerKey) ELSE inner
       IN  /\ wire' = wire \cup {Published(event, "raw", NoEvent,
                                           CountBy("raw") + 1, FALSE)}
           /\ ToServer(event)
    /\ UNCHANGED <<cfgVars, extVars, cleanups, serverErrors, broadcasts,
                   cliVars, now>>

RawReplies ==
    {Response("j1", "other"), Notification("notifications/other", None)}

RawToClient(wrapped, e, message, cap) ==
    /\ CountBy("raw") < MaxRaw
    /\ Incoming < cap
    /\ LET inner == Event(RawIdNames[CountBy("raw") + 1], RawKey,
                          CTXVM_MESSAGES_KIND, ClientKey, e, FALSE,
                          <<"json", message>>, RawKey)
           event == IF wrapped THEN encryptMessage(inner, ClientKey) ELSE inner
       IN  /\ wire' = wire \cup {Published(event, "raw", NoEvent,
                                           CountBy("raw") + 1, FALSE)}
           /\ ClientReceive(event)
    /\ UNCHANGED <<cfgVars, extVars, srvVars, mcpVars, publishing, now>>

\* ------------------------------------------------ the local MCP server
\* The local MCP server answers each request it was handed once, under the
\* id the request carried, and reports progress under the request's token
\* while it has not answered.
ResultOf(request) ==
    Response(request.id,
             IF request.method = "initialize" THEN "init" ELSE "other")

\* NostrServerTransport.send(response): handleResponse up to its await
SendResponse(r, response) ==
    /\ r \in mcpInbox
    /\ isJSONRPCRequest(r.msg)
    /\ ~r.answered
    /\ mcpInbox' = (mcpInbox \ {r}) \cup {[r EXCEPT !.answered = TRUE]}
    /\ LET target == ResponseTarget(clientSessions, response.id)
           events == {Published(ResponseEvent(clientSessions, response,
                                              ServerEventId),
                                "server", r.ev, 0,
                                clientSessions[target].isEncrypted)}
       IN  IF target = 0
           THEN /\ serverErrors' = serverErrors + 1
                /\ UNCHANGED <<cleanups, wire, clientInbox,
                               pendingRequestIds, serverInitializeEvent>>
           ELSE /\ wire' = wire \cup events
                /\ ToClient(events)
                /\ cleanups' = cleanups \cup
                        {[sid |-> clientSessions[target].sid,
                          id |-> response.id]}
                /\ UNCHANGED serverErrors
    /\ UNCHANGED <<cfgVars, extVars, clientSessions, nextSid, decrypting,
                   broadcasts,
                   publishing, now>>

McpRespond(r) == SendResponse(r, ResultOf(r.msg))

\* The local MCP server answers a request with a result of more than 1 MiB.
McpRespondLarge(r) == SendResponse(r, Response(r.msg.id, "large"))

\* handleResponse after its await, on the session object it holds
ResponseCleanup(c) ==
    /\ c \in cleanups
    /\ cleanups' = cleanups \ {c}
    /\ clientSessions' =
           [i \in DOMAIN clientSessions |->
               IF clientSessions[i].sid = c.sid
               THEN [clientSessions[i] EXCEPT !.pendingRequests =
                        CleanPending(@, c.id)]
               ELSE clientSessions[i]]
    /\ UNCHANGED <<cfgVars, extVars, nextSid, decrypting, serverErrors, mcpVars,
                   cliVars, wire, now>>

\* NostrServerTransport.send(notification) for notifications/progress
McpProgress(r) ==
    /\ r \in mcpInbox
    /\ isJSONRPCRequest(r.msg)
    /\ r.msg.tok # None
    /\ ~r.answered
    /\ r.progress < MaxProgress
    /\ mcpInbox' = (mcpInbox \ {r}) \cup {[r EXCEPT !.progress = @ + 1]}
    /\ LET token == r.msg.tok
           notification == Notification("notifications/progress", token)
           swept == cleanupInactiveSessions(clientSessions)
           target == ProgressTarget(swept, token)
           events == {Published(sendNotification(swept[target], notification,
                          MapGet(swept[target].pendingRequests, token),
                          ServerEventId), "server", r.ev, r.progress + 1,
                          swept[target].isEncrypted)}
       IN  /\ clientSessions' = swept
           /\ IF target = 0
              THEN /\ serverErrors' = serverErrors + 1
                   /\ UNCHANGED <<wire, clientInbox, pendingRequestIds,
                                  serverInitializeEvent>>
              ELSE /\ wire' = wire \cup events
                   /\ ToClient(events)
                   /\ UNCHANGED serverErrors
    /\ UNCHANGED <<cfgVars, extVars, nextSid, decrypting, cleanups, broadcasts,
                   publishing, now>>

\* A broadcast that goes to every session of the map.
BroadcastTargetsAll(sessions) == DOMAIN sessions

\* handleNotification: the sessions a notification that is not routed by a
\* progress token goes to
BroadcastTargets(sessions) ==
    {i \in DOMAIN sessions : sessions[i].isInitialized}

\* NostrServerTransport.send(notification) for any other notification
McpBroadcast ==
    /\ broadcasts < MaxBroadcasts
    /\ broadcasts' = broadcasts + 1
    /\ LET notification == Notification("notifications/other", None)
           swept == cleanupInactiveSessions(clientSessions)
           targets == BroadcastTargets(swept)
           events == {Published(sendNotification(swept[i], notification,
                                    None, ServerEventId),
                                "server", NoEvent, broadcasts + 1,
                                swept[i].isEncrypted) :
                        i \in targets}
       IN  /\ clientSessions' = swept
           /\ wire' = wire \cup events
           /\ ToClient(events)
    /\ UNCHANGED <<cfgVars, extVars, nextSid, decrypting, cleanups,
                   serverErrors,
                   mcpInbox, publishing, now>>

Tick ==
    /\ now < MaxTicks * DefaultSessionTimeoutMs + MaxTicks
    /\ now' = now + DefaultSessionTimeoutMs + 1
    /\ UNCHANGED <<cfgVars, extVars, srvVars, mcpVars, cliVars, wire>>

\* Every publisher signs what it publishes under its own key.
Next ==
    \/ \E message \in ClientMessages : ClientSend(message, MaxEvents)
    \/ \E eventId \in publishing : ClientPublished(eventId)
    \/ \E event \in decrypting : ServerDecrypted(event)
    \/ \E wrapped \in BOOLEAN, content \in RawContents :
            RawToServer(wrapped, RawKey, RawIdNames[CountBy("raw") + 1],
                        content, MaxEvents)
    \/ \E wrapped \in BOOLEAN, e \in {None} \cup KnownIds,
          message \in RawReplies :
            RawToClient(wrapped, e, message, MaxEvents)
    \/ \E r \in mcpInbox : McpRespond(r)
    \/ \E c \in cleanups : ResponseCleanup(c)
    \/ \E r \in mcpInbox : McpProgress(r)
    \/ McpBroadcast

Spec == Init /\ [][Next]_vars

\* The holder of key "B" also publishes gift wraps whose inner event states
\* an author or an id of its choosing.
NextForge ==
    \/ \E message \in ClientMessages : ClientSend(message, MaxEvents)
    \/ \E eventId \in publishing : ClientPublished(eventId)
    \/ \E event \in decrypting : ServerDecrypted(event)
    \/ \E wrapped \in BOOLEAN, pubkey \in ClientKeys,
          id \in {RawIdNames[CountBy("raw") + 1]} \cup KnownIds,
          content \in RawContents :
            RawToServer(wrapped, pubkey, id, content, MaxEvents)
    \/ \E wrapped \in BOOLEAN, e \in {None} \cup KnownIds,
          message \in RawReplies :
            RawToClient(wrapped, e, message, MaxEvents)
    \/ \E r \in mcpInbox : McpRespond(r)
    \/ \E c \in cleanups : ResponseCleanup(c)
    \/ \E r \in mcpInbox : McpProgress(r)
    \/ McpBroadcast

SpecForge == Init /\ [][NextForge]_vars

\* A deployment without encryption: both transports run in DISABLED mode,
\* every event travels in clear and every event id can be read off the
\* relays.
InitClear ==
    /\ Init
    /\ serverMode = "disabled"
    /\ clientMode = "disabled"
    /\ allowedPublicKeys = {}

NextClear ==
    \/ \E message \in ClientMessages : ClientSend(message, MaxEventsClear)
    \/ \E eventId \in publishing : ClientPublished(eventId)
    \/ \E content \in RawContents :
            RawToServer(FALSE, RawKey, RawIdNames[CountBy("raw") + 1],
                        content, MaxEventsClear)
    \/ \E r \in mcpInbox : McpRespond(r)
    \/ \E c \in cleanups : ResponseCleanup(c)
    \/ \E r \in mcpInbox : McpProgress(r)

SpecClear == InitClear /\ [][NextClear]_vars

\* The local MCP server also returns results of more than 1 MiB.
InitSize ==
    /\ Init
    /\ allowedPublicKeys = {}

NextSize ==
    \/ \E message \in ClientMessages : ClientSend(message, MaxEvents)
    \/ \E eventId \in publishing : ClientPublished(eventId)
    \/ \E event \in decrypting : ServerDecrypted(event)
    \/ \E r \in mcpInbox : McpRespond(r)
    \/ \E r \in mcpInbox : McpRespondLarge(r)
    \/ \E c \in cleanups : ResponseCleanup(c)

SpecSize == InitSize /\ [][NextSize]_vars

\* Time passes: sessions go idle and notifications sweep them.  The
\* client sends in clear, so that its event ids can be read off the relays.
InitSweep ==
    /\ Init
    /\ serverMode = "optional"
    /\ clientMode = "disabled"
    /\ allowedPublicKeys = {}

NextSweep == Next \/ Tick

SpecSweep == InitSweep /\ [][NextSweep]_vars

\* ---------------------------------------------------------- redelivery
\* Relays keep gift wraps (kind 1059 is a regular kind).  After a relay
\* reconnects, resubscribeAll opens the transport's subscription anew with
\* the filter it was created with, whose since is the time of start(), and
\* the relays send the stored events that match it once more.
Redeliver(w) ==
    /\ w \in wire
    /\ w.by # "server"
    /\ w.ev.kind = GIFT_WRAP_KIND
    /\ Subscribed(w.ev, ServerKey)
    /\ redelivered < MaxRedeliveries
    /\ redelivered' = redelivered + 1
    /\ ToServer(w.ev)
    /\ UNCHANGED <<cfgVars, serverLife, bootVars, poolVars, cleanups,
                   serverErrors, broadcasts, cliVars, wire, now>>

\* A client that wraps all it sends, against a server that takes both.
InitReplay ==
    /\ Init
    /\ serverMode = "optional"
    /\ clientMode = "required"
    /\ allowedPublicKeys = {}

NextReplay ==
    \/ \E message \in ClientMessages : ClientSend(message, MaxEvents)
    \/ \E eventId \in publishing : ClientPublished(eventId)
    \/ \E event \in decrypting : ServerDecrypted(event)
    \/ \E r \in mcpInbox : McpRespond(r)
    \/ \E c \in cleanups : ResponseCleanup(c)
    \/ \E w \in wire : Redeliver(w)

SpecReplay == InitReplay /\ [][NextReplay]_vars

\* ---------------------------------------------------------------- close
\* NostrServerTransport.close up to the await in disconnect(): the
\* subscription is closed
CloseBegins ==
    /\ serverLife = "started"
    /\ serverLife' = "closing"
    /\ UNCHANGED <<cfgVars, srvVars, mcpVars, cliVars, wire, now,
                   redelivered, bootVars, poolVars>>

\* close after the await: isConnected is reset and the session map cleared
CloseEnds ==
    /\ serverLife = "closing"
    /\ serverLife' = "closed"
    /\ clientSessions' = <<>>
    /\ UNCHANGED <<cfgVars, nextSid, decrypting, cleanups, serverErrors,
                   mcpVars, cliVars, wire, now, redelivered, bootVars,
                   poolVars>>

InitClose ==
    /\ Init
    /\ serverMode = "optional"
    /\ allowedPublicKeys = {}

NextClose == Next \/ CloseBegins \/ CloseEnds

SpecClose == InitClose /\ [][NextClose]_vars

\* ------------------------------------------------------------ discovery
\* The result object of an announcement response; res names the result
\* schema it parses under.
Result(res) == Msg("result", None, None, None, res)

DiscoveryResults ==
    {Result(res) : res \in {"init", "tools", "resources", "templates",
                            "prompts", "other"}}

\* announcer: the kind of the first mapping whose schema parses the result,
\* 0 when none does
AnnouncementKind(result) ==
    CASE result.res = "init" -> SERVER_ANNOUNCEMENT_KIND
      [] result.res = "tools" -> TOOLS_LIST_KIND
      [] result.res = "resources" -> RESOURCES_LIST_KIND
      [] result.res = "templates" -> RESOURCETEMPLATES_LIST_KIND
      [] result.res = "prompts" -> PROMPTS_LIST_KIND
      [] OTHER -> 0

\* NostrServerTransport.announcer(message): the result goes out under its
\* discovery kind, the server announcement with the common tags, addressed
\* to nobody and without a forceEncryption argument.
Announce(result) ==
    /\ CountBy("server") < MaxDiscovery
    /\ LET kind == AnnouncementKind(result)
           event == sendMcpMessage(serverMode, ServerKey, result, ServerKey,
                                   kind, None, None,
                                   kind = SERVER_ANNOUNCEMENT_KIND, FALSE,
                                   ServerEventId)
       IN  wire' = IF kind = 0
                   THEN wire
                   ELSE wire \cup {Published(event, "server", NoEvent,
                                             CountBy("server") + 1, FALSE)}
    /\ UNCHANGED <<cfgVars, extVars, srvVars, mcpVars, cliVars, now>>

\* BaseNostrTransport.sendMcpMessage called by the server transport (or a
\* subclass of it) with a discovery kind and any forceEncryption argument
SendDiscovery(kind, result, forceEncryption) ==
    /\ CountBy("server") < MaxDiscovery
    /\ LET event == sendMcpMessage(serverMode, ServerKey, result, ServerKey,
                                   kind, None, None, FALSE, forceEncryption,
                                   ServerEventId)
       IN  wire' = wire \cup {Published(event, "server", NoEvent,
                                        CountBy("server") + 1,
                                        forceEncryption)}
    /\ UNCHANGED <<cfgVars, extVars, srvVars, mcpVars, cliVars, now>>

NextDiscovery ==
    \/ \E result \in DiscoveryResults : Announce(result)
    \/ \E kind \in unencryptedKinds, result \in DiscoveryResults,
          forceEncryption \in BOOLEAN :
            SendDiscovery(kind, result, forceEncryption)

SpecDiscovery == Init /\ [][NextDiscovery]_vars

\* ----------------------------------------------------- relay pool actions
\* Time is the pool's clock in milliseconds.  It moves from one instant at
\* which a timer, a backoff sleep or a connection timeout is due to the
\* next; what is due at an instant happens before time moves on.
DueTimes ==
    {h.at : h \in handlers} \cup (IF timerAt = NoTimer THEN {} ELSE {timerAt})

Advance ==
    /\ DueTimes # {}
    /\ \A t \in DueTimes : t > now
    /\ now' = CHOOSE t \in DueTimes : \A u \in DueTimes : t <= u
    /\ now' <= MaxTime
    /\ UNCHANGED <<cfgVars, srvVars, mcpVars, cliVars, wire, lifeVars,
                   bootVars, poolVars>>

\* A relay's connection drops.
Drop(url) ==
    /\ connected[url]
    /\ connected' = [connected EXCEPT ![url] = FALSE]
    /\ UNCHANGED <<cfgVars, srvVars, mcpVars, cliVars, wire, now, lifeVars,
                   bootVars, relayStates, handlers, timerAt, subscriptions,
                   issued, resubscribes, published,
                   poolLife>>

\* The callback of startReconnectLoop's timer: handleDisconnectedRelay is
\* called for every relay that is not connected, and the timer is set anew.
TimerFires ==
    /\ timerAt = now
    /\ LET down == {url \in Relays : ~connected[url]}
       IN  /\ handlers' = handlers \cup CallsStarted(down, relayStates, now)
           /\ relayStates' =
                  [url \in Relays |->
                      IF url \in down
                      THEN StateAfterCall(relayStates[url])
                      ELSE relayStates[url]]
    /\ timerAt' = now + ReconnectCheckMs
    /\ UNCHANGED <<cfgVars, srvVars, mcpVars, cliVars, wire, now, lifeVars,
                   bootVars, connected, subscriptions, issued, resubscribes,
                   published,
                   poolLife>>

\* handleDisconnectedRelay after sleep(currentInterval): the guards are not
\* looked at again
BackoffOver(h) ==
    /\ h \in handlers
    /\ h.pc = "sleep"
    /\ h.at = now
    /\ relayStates' =
           [relayStates EXCEPT ![h.url] = MarkReconnecting(@)]
    /\ connected' = [connected EXCEPT ![h.url] = FALSE]
    /\ handlers' = (handlers \ {h})
           \cup {[h EXCEPT !.pc = "connect",
                           !.at = now + ConnectionTimeoutMs]}
    /\ UNCHANGED <<cfgVars, srvVars, mcpVars, cliVars, wire, now, lifeVars,
                   bootVars, timerAt, subscriptions, issued, resubscribes,
                   published,
                   poolLife>>

\* handleDisconnectedRelay after ensureRelay resolved
Reconnected(h) ==
    /\ h \in handlers
    /\ h.pc = "connect"
    /\ relayStates' = [relayStates EXCEPT ![h.url] = InitialRelayState]
    /\ connected' = [connected EXCEPT ![h.url] = TRUE]
    /\ issued' = resubscribeAll(subscriptions, issued)
    /\ resubscribes' = Min(resubscribes + 1, MaxCycles)
    /\ handlers' = handlers \ {h}
    /\ UNCHANGED <<cfgVars, srvVars, mcpVars, cliVars, wire, now, lifeVars,
                   bootVars, timerAt, subscriptions, published,
                   poolLife>>

\* handleDisconnectedRelay after ensureRelay rejected
ReconnectFailed(h) ==
    /\ h \in handlers
    /\ h.pc = "connect"
    /\ relayStates' =
           [relayStates EXCEPT
               ![h.url].reconnectInterval =
                   BackoffAfterFailure(h.currentInterval),
               ![h.url].isReconnecting = FALSE]
    /\ handlers' = handlers \ {h}
    /\ UNCHANGED <<cfgVars, srvVars, mcpVars, cliVars, wire, now, lifeVars,
                   bootVars, connected, timerAt, subscriptions, issued,
                   resubscribes, published,
                   poolLife>>

\* SimpleRelayPool.subscribe
PoolSubscribe(filters) ==
    /\ Len(subscriptions) < MaxSubscriptions
    /\ subscriptions' = Append(subscriptions, filters)
    /\ issued' = [issued EXCEPT ![filters] = @ + 1]
    /\ UNCHANGED <<cfgVars, srvVars, mcpVars, cliVars, wire, now, lifeVars,
                   bootVars, relayStates, connected, handlers, timerAt,
                   resubscribes, published,
                   poolLife>>

\* SimpleRelayPool.unsubscribe
PoolUnsubscribe ==
    /\ subscriptions # <<>>
    /\ issued' = [f \in Filters |-> issued[f] - Registered(subscriptions, f)]
    /\ subscriptions' = <<>>
    /\ UNCHANGED <<cfgVars, srvVars, mcpVars, cliVars, wire, now, lifeVars,
                   bootVars, relayStates, connected, handlers, timerAt,
                   resubscribes, published,
                   poolLife>>

\* publish(event) on either pool; accepted are the relays that took the
\* event
PoolPublish(pool, accepted) ==
    /\ published' =
           [pool |-> pool, accepted |-> accepted,
            raised |-> IF pool = "simple"
                       THEN SimplePublishRaises(accepted)
                       ELSE ApplesaucePublishRaises(accepted)]
    /\ UNCHANGED <<cfgVars, srvVars, mcpVars, cliVars, wire, now, lifeVars,
                   bootVars, relayStates, connected, handlers, timerAt,
                   subscriptions, issued, resubscribes, poolLife>>

InitPool ==
    /\ Init
    /\ serverMode = "disabled"
    /\ clientMode = "disabled"
    /\ allowedPublicKeys = {}

NextPool ==
    \/ Advance
    \/ TimerFires
    \/ \E url \in Relays : Drop(url)
    \/ \E h \in handlers : BackoffOver(h)
    \/ \E h \in handlers : Reconnected(h)
    \/ \E h \in handlers : ReconnectFailed(h)
    \/ \E filters \in Filters : PoolSubscribe(filters)
    \/ PoolUnsubscribe

SpecPool == InitPool /\ [][NextPool]_vars

\* Publishing through a pool whose relays come and go.
NextPublish ==
    \/ \E pool \in {"simple", "applesauce"}, accepted \in SUBSET Relays :
            PoolPublish(pool, accepted)
    \/ \E url \in Relays : Drop(url)
    \/ \E filters \in Filters : PoolSubscribe(filters)
    \/ PoolUnsubscribe

SpecPublish == InitPool /\ [][NextPublish]_vars

\* SimpleRelayPool.disconnect() without an argument: every entry of
\* relayStates is reset, the timer is cleared and every relay closed.  Calls
\* of handleDisconnectedRelay that are in flight go on.
PoolDisconnect ==
    /\ poolLife = "connected"
    /\ poolLife' = "disconnected"
    /\ relayStates' = [url \in Relays |-> InitialRelayState]
    /\ timerAt' = NoTimer
    /\ connected' = [url \in Relays |-> FALSE]
    /\ UNCHANGED <<cfgVars, srvVars, mcpVars, cliVars, wire, now, lifeVars,
                   bootVars, handlers, subscriptions, issued, resubscribes,
                   published>>

\* SimpleRelayPool.connect(): handleDisconnectedRelay is called for every
\* relay that is not connected
PoolConnect ==
    /\ poolLife = "disconnected"
    /\ poolLife' = "reconnected"
    /\ LET down == {url \in Relays : ~connected[url]}
       IN  /\ handlers' = handlers \cup CallsStarted(down, relayStates, now)
           /\ relayStates' =
                  [url \in Relays |->
                      IF url \in down
                      THEN StateAfterCall(relayStates[url])
                      ELSE relayStates[url]]
    /\ UNCHANGED <<cfgVars, srvVars, mcpVars, cliVars, wire, now, lifeVars,
                   bootVars, connected, timerAt, subscriptions, issued,
                   resubscribes, published>>

\* A pool that is disconnected and connected again, once, while its relays
\* come and go.
NextPoolLife ==
    \/ Advance
    \/ TimerFires
    \/ \E url \in Relays : Drop(url)
    \/ \E h \in handlers : BackoffOver(h)
    \/ \E h \in handlers : Reconnected(h)
    \/ \E h \in handlers : ReconnectFailed(h)
    \/ PoolDisconnect
    \/ PoolConnect

SpecPoolLife == InitPool /\ [][NextPoolLife]_vars

\* ---------------------------------------------------------- bootstrap
\* constants.ts announcementMethods, in the order of Object.entries
announcementMethods ==
    <<"initialize", "tools/list", "resources/list",
      "resources/templates/list", "prompts/list">>

AnnouncementId == "announcement"

\* What the local MCP server answers to a bootstrap request.
AnnouncementResult(method) ==
    CASE method = "initialize" -> "init"
      [] method = "tools/list" -> "tools"
      [] method = "resources/list" -> "resources"
      [] method = "resources/templates/list" -> "templates"
      [] method = "prompts/list" -> "prompts"
      [] OTHER -> "other"

\* What the transport itself hands to onmessage, whether the local MCP
\* server has answered it, and whether the gateway's local MCP transport
\* had completed its start() when the gateway forwarded it.
Handed(message) ==
    [msg |-> message, answered |-> FALSE, started |-> gatewayPc = "running"]

\* getAnnouncementData's loop: one request per entry of announcementMethods
AnnouncementRequests ==
    [i \in DOMAIN announcementMethods |->
        Handed(Request(AnnouncementId, announcementMethods[i], None))]

\* start() of a public server: getAnnouncementData up to its await
BootStarts ==
    /\ announcePc = "idle"
    /\ announcePc' = "waiting"
    /\ announced' =
           IF ~isInitialized
           THEN Append(announced,
                       Handed(Request(AnnouncementId, "initialize", None)))
           ELSE announced
    /\ UNCHANGED <<cfgVars, srvVars, mcpVars, cliVars, wire, now, lifeVars,
                   isInitialized, gatewayPc, poolVars>>

\* getAnnouncementData after waitForInitialization, which returns once
\* isInitialized is set or 10 s have passed
BootAnnounces ==
    /\ announcePc = "waiting"
    /\ announcePc' = "done"
    /\ announced' = announced \o AnnouncementRequests
    /\ UNCHANGED <<cfgVars, srvVars, mcpVars, cliVars, wire, now, lifeVars,
                   isInitialized, gatewayPc, poolVars>>

\* NostrServerTransport.send(response) for a response whose id is
\* "announcement": handleResponse's first branch and the announcer
BootAnswered(i) ==
    /\ i \in DOMAIN announced
    /\ isJSONRPCRequest(announced[i].msg)
    /\ ~announced[i].answered
    /\ LET result == Result(AnnouncementResult(announced[i].msg.method))
           kind == AnnouncementKind(result)
           event == sendMcpMessage(serverMode, ServerKey, result, ServerKey,
                                   kind, None, None,
                                   kind = SERVER_ANNOUNCEMENT_KIND, FALSE,
                                   ServerEventId)
           marked == [announced EXCEPT ![i].answered = TRUE]
       IN  /\ isInitialized' = (isInitialized \/ result.res = "init")
           /\ announced' =
                  IF result.res = "init"
                  THEN Append(marked, Handed(Notification(
                                  "notifications/initialized", None)))
                  ELSE marked
           /\ wire' = wire \cup {Published(event, "server", NoEvent,
                                           CountBy("server") + 1, FALSE)}
    /\ UNCHANGED <<cfgVars, srvVars, mcpVars, cliVars, now, lifeVars,
                   announcePc, gatewayPc, poolVars>>

NextBoot ==
    \/ BootStarts
    \/ BootAnnounces
    \/ \E i \in DOMAIN announced : BootAnswered(i)

SpecBoot == Init /\ [][NextBoot]_vars

\* ---------------------------------------------------------------- gateway
\* NostrMCPGateway of a public server.  Its constructor makes
\* handleMessageFromNostr the transport's onmessage, so that whatever the
\* transport hands over is passed to mcpServerTransport.send at once.

\* NostrMCPGateway.start up to the first await inside getAnnouncementData:
\* nostrServerTransport.start() has connected and subscribed and hands the
\* initialize request to onmessage
GatewayStarts ==
    /\ gatewayPc = "idle"
    /\ gatewayPc' = "nostrStarting"
    /\ announcePc = "idle"
    /\ announcePc' = "waiting"
    /\ announced' =
           IF ~isInitialized
           THEN Append(announced,
                       Handed(Request(AnnouncementId, "initialize", None)))
           ELSE announced
    /\ UNCHANGED <<cfgVars, srvVars, mcpVars, cliVars, wire, now, lifeVars,
                   isInitialized, poolVars>>

\* waitForInitialization returns, getAnnouncementData hands its requests
\* to onmessage and nostrServerTransport.start() returns; the gateway
\* calls mcpServerTransport.start()
GatewayAnnounces ==
    /\ gatewayPc = "nostrStarting"
    /\ gatewayPc' = "mcpStarting"
    /\ announcePc' = "done"
    /\ announced' = announced \o AnnouncementRequests
    /\ UNCHANGED <<cfgVars, srvVars, mcpVars, cliVars, wire, now, lifeVars,
                   isInitialized, poolVars>>

\* mcpServerTransport.start() completes and start() sets isRunning
GatewayMcpStarted ==
    /\ gatewayPc = "mcpStarting"
    /\ gatewayPc' = "running"
    /\ UNCHANGED <<cfgVars, srvVars, mcpVars, cliVars, wire, now, lifeVars,
                   isInitialized, announcePc, announced, poolVars>>

\* handleMessageFromServer: the local MCP server, reachable once its
\* transport has started, answers a request it was forwarded
GatewayAnswered(i) ==
    /\ gatewayPc = "running"
    /\ BootAnswered(i)

NextGateway ==
    \/ GatewayStarts
    \/ GatewayAnnounces
    \/ GatewayMcpStarted
    \/ \E i \in DOMAIN announced : GatewayAnswered(i)

SpecGateway == Init /\ [][NextGateway]_vars

\* -------------------------------------------------------------- claims
ByServer == {w \in wire : w.by = "server"}

\* the JSON-RPC message a published event carries
MessageOf(w) == nostrEventToMcpMessage(InnerOf(w.ev))

\* the request a server event belongs to, as its client wrote it
OriginalMessage(w) == nostrEventToMcpMessage(w.re)

ResponseEvents == {w \in ByServer : isJSONRPCResponse(MessageOf(w))}

ProgressEvents ==
    {w \in ByServer : MessageOf(w).method = "notifications/progress"}

RequestsAtMcp == {r \in mcpInbox : isJSONRPCRequest(r.msg)}

PendingAtMcp == {r \in RequestsAtMcp : ~r.answered}

\* requests the client transport of key "A" sent
FromClient == {r \in RequestsAtMcp : r.ev.signer = ClientKey}

\* the events the server published for request r and routed to its client
EmittedFor(r) ==
    {w \in ByServer : /\ w.re = r.ev
                      /\ InnerOf(w.ev).p = r.ev.pubkey
                      /\ InnerOf(w.ev).e = r.ev.id}

\* what the client transport delivered under the e tag of request r
DeliveredFor(r) == SelectSeq(clientInbox, LAMBDA d : d.ev.e = r.ev.id)

\* nothing but the server has published under the e tag of request r
OnlyServerAnswered(r) ==
    \A w \in wire : InnerOf(w.ev).e = r.ev.id => w.by = "server"

\* C1: every response event the server transport publishes carries, in its
\* JSON content, the JSON-RPC id the client wrote in the request it answers.
C1_ResponseCarriesOriginalId ==
    \A w \in ResponseEvents : MessageOf(w).id = OriginalMessage(w).id

\* C2: every response event names in its p tag the author of the request
\* event it answers and in its e tag that event's id, so it is never
\* addressed to another client.
C2_ResponseAddressedToRequester ==
    \A w \in ResponseEvents :
        /\ w.ev.p = w.re.pubkey
        /\ InnerOf(w.ev).p = w.re.pubkey
        /\ InnerOf(w.ev).e = w.re.id

\* C3: the id under which the local MCP server sees a request is the id of
\* the event that carried it, and no two pending requests are presented to
\* the local MCP server under the same id.
C3_PendingIdIsEventId ==
    /\ \A r \in RequestsAtMcp : r.msg.id = r.ev.id
    /\ \A r1, r2 \in PendingAtMcp : r1.msg.id = r2.msg.id => r1 = r2

\* C4: a progress notification is routed to the client whose pending
\* request supplied its token, with the e tag set to that request's event
\* id, also when another client uses the same token value (the token is
\* no event id, and no client uses it for two of its own requests).
C4_ProgressRoutedToTokenOwner ==
    \A w \in ProgressEvents :
        (/\ MessageOf(w).tok \notin {r.ev.id : r \in RequestsAtMcp}
         /\ Cardinality({r \in RequestsAtMcp :
                            /\ r.msg.tok = MessageOf(w).tok
                            /\ r.ev.pubkey = w.re.pubkey}) = 1)
        => /\ InnerOf(w.ev).p = w.re.pubkey
           /\ InnerOf(w.ev).e = w.re.id

\* C5: when the client sent a request with a progress token and its send
\* has completed, each progress notification and then the result the server
\* publishes for that request is delivered to the client's upper layer on
\* arrival, so all of them arrive, in the order of emission.
C5_ProgressThenResultDelivered ==
    [][\A r \in FromClient :
          \A w \in EmittedFor(r)' \ EmittedFor(r) :
              (/\ r.msg.tok # None
               /\ r.ev.id \notin publishing
               /\ OnlyServerAnswered(r)
               /\ \A i \in DOMAIN DeliveredFor(r) :
                      ~isJSONRPCResponse(DeliveredFor(r)[i].msg))
              => /\ Len(clientInbox') = Len(clientInbox) + 1
                 /\ clientInbox'[Len(clientInbox')].msg = MessageOf(w)]_vars

\* C6: the client transport delivers the response to a request it sent
\* exactly once, whatever the order of the completion of its publish and
\* the arrival of the response.
C6_ResponseDeliveredOnce ==
    \A r \in FromClient :
        (/\ r.progress = 0
         /\ OnlyServerAnswered(r)
         /\ \E w \in EmittedFor(r) : isJSONRPCResponse(MessageOf(w)))
        => Len(DeliveredFor(r)) = 1

\* C7: every event a transport in REQUIRED mode publishes for a kind-25910
\* message is a kind-1059 gift wrap around the signed kind-25910 event.
C7_RequiredPublishesWrapped ==
    \A w \in wire :
        (\/ w.by = "client" /\ clientMode = "required"
         \/ w.by = "server" /\ serverMode = "required")
        => /\ w.ev.kind = GIFT_WRAP_KIND
           /\ decryptMessage(w.ev).kind = CTXVM_MESSAGES_KIND

\* A REQUIRED client and a REQUIRED server have exchanged a request, a
\* progress notification and a response, all gift-wrapped.
C7_RequiredExchange ==
    /\ clientMode = "required"
    /\ serverMode = "required"
    /\ \E w \in wire : w.by = "client" /\ w.ev.kind = GIFT_WRAP_KIND
    /\ \E w \in ResponseEvents : w.ev.kind = GIFT_WRAP_KIND
    /\ \E w \in ProgressEvents : w.ev.kind = GIFT_WRAP_KIND

\* C8: a transport in REQUIRED mode, server or client, never delivers to
\* its upper layer a message that arrived as a cleartext kind-25910 event.
C8_RequiredDeliversOnlyWrapped ==
    /\ serverMode = "required" => \A r \in mcpInbox : r.wrapped
    /\ clientMode = "required" =>
           \A i \in DOMAIN clientInbox : clientInbox[i].wrapped

\* C9: a server in OPTIONAL mode gift-wraps a response or notification to
\* a client exactly when that client's session has isEncrypted set, and
\* publishes it in clear otherwise.
C9_OptionalMirrorsSession ==
    serverMode = "optional" =>
        \A w \in ByServer : (w.ev.kind = GIFT_WRAP_KIND) = w.force

\* C10: with a non-empty allowlist no message authored by a key outside the
\* list is delivered to the local MCP server and no session exists for such
\* a key, whether the event arrived in clear or gift-wrapped.
C10_AllowlistExcludesOutsiders ==
    allowedPublicKeys # {} =>
        /\ \A r \in mcpInbox : r.ev.signer \in allowedPublicKeys
        /\ \A i \in DOMAIN clientSessions :
               clientSessions[i].pk \in allowedPublicKeys

\* A signature verifies exactly when the key that produced the event is
\* the key the event states.
Verifies(event) == event.signer = event.pubkey

\* C11: every event a transport accepts and acts on, the inner event of a
\* gift wrap included, carries a signature that verifies under the public
\* key it states: no message is delivered from, and no session exists
\* through, an event whose signature does not verify.
C11_AcceptedEventsVerify ==
    /\ \A r \in mcpInbox : Verifies(r.ev)
    /\ \A i \in DOMAIN clientInbox : Verifies(clientInbox[i].ev)
    /\ \A i \in DOMAIN clientSessions :
           \E r \in mcpInbox : /\ r.ev.pubkey = clientSessions[i].pk
                               /\ Verifies(r.ev)

\* an inbound event the server's encryption mode tells it to drop
PolicyMismatch(event) ==
    \/ event.kind = GIFT_WRAP_KIND /\ serverMode = "disabled"
    \/ event.kind # GIFT_WRAP_KIND /\ serverMode = "required"

\* C12: the arrival of an event the server drops for encryption-policy
\* mismatch (cleartext under REQUIRED, gift-wrapped under DISABLED) changes
\* nothing: no session is created or updated, nothing is delivered to the
\* local MCP server or kept for decryption, and the server publishes nothing.
C12_MismatchHasNoEffect ==
    [][\A w \in wire' \ wire :
          (/\ w.by # "server"
           /\ Subscribed(w.ev, ServerKey)
           /\ PolicyMismatch(w.ev))
          => /\ UNCHANGED <<clientSessions, nextSid, decrypting, mcpInbox>>
             /\ ByServer' = ByServer]_vars

\* A REQUIRED server has received the cleartext initialize request of a
\* DISABLED client and dropped it.
C12_CleartextDroppedByRequired ==
    /\ serverMode = "required"
    /\ clientMode = "disabled"
    /\ \E w \in wire : /\ w.by = "client"
                       /\ w.ev.kind = CTXVM_MESSAGES_KIND
                       /\ MessageOf(w).method = "initialize"
    /\ mcpInbox = {}
    /\ clientSessions = <<>>

\* C13: a transport in DISABLED mode, server or client, never delivers to
\* its upper layer a message that arrived in a kind-1059 gift wrap.
C13_DisabledDeliversOnlyClear ==
    /\ serverMode = "disabled" => \A r \in mcpInbox : ~r.wrapped
    /\ clientMode = "disabled" =>
           \A i \in DOMAIN clientInbox : ~clientInbox[i].wrapped

\* one side REQUIRED and the other DISABLED
ModesIncompatible ==
    \/ clientMode = "required" /\ serverMode = "disabled"
    \/ clientMode = "disabled" /\ serverMode = "required"

\* the initialize requests the client transport has published
InitializeSent ==
    {w \in wire : w.by = "client" /\ MessageOf(w).method = "initialize"}

\* C14: for every combination of client and server encryption modes the
\* initialize handshake goes through (the server takes the client's
\* initialize request: it is awaiting decryption or has been handed to the
\* local MCP server), except when one side is REQUIRED and the other
\* DISABLED, where the server never publishes a response to it.
C14_HandshakeByModes ==
    \A w \in InitializeSent :
        IF ModesIncompatible
        THEN \A s \in ByServer : s.re # InnerOf(w.ev)
        ELSE \/ w.ev \in decrypting
             \/ \E r \in mcpInbox : r.ev = InnerOf(w.ev)

\* C15: every event of a discovery kind (11316 to 11320) is published in
\* clear: whatever the encryption mode and the forceEncryption argument of
\* the send helper, what goes on the wire is the signed discovery event
\* itself and never a kind-1059 gift wrap around it.
C15_DiscoveryInClear ==
    \A w \in wire :
        InnerOf(w.ev).kind \in unencryptedKinds
        => /\ w.ev.kind # GIFT_WRAP_KIND
           /\ Verifies(w.ev)

\* every request handed to the local MCP server has had its response
\* published, and no handler of the server transport is still running
AllAnswered ==
    /\ decrypting = {}
    /\ cleanups = {}
    /\ \A r \in RequestsAtMcp : \E w \in ResponseEvents : w.re = r.ev

\* C16: once every request delivered to the local MCP server has had its
\* response emitted, every session's pending map is empty: it holds no
\* event-id entry and no progress-token entry.
C16_PendingEmptyAtQuiescence ==
    AllAnswered =>
        \A i \in DOMAIN clientSessions :
            clientSessions[i].pendingRequests = <<>>

\* C17: within timeout + 5 s of a session's last inbound activity the
\* session and its pending map are gone from the session map, whatever
\* happens in between: no session is older than the timeout plus 5 s.
C17_IdleSessionRemoved ==
    \A i \in DOMAIN clientSessions :
        now - clientSessions[i].lastActivity
            <= DefaultSessionTimeoutMs + 5000

\* session has id as the event id of a request of its client that the
\* local MCP server has not answered
HoldsPending(session, id) ==
    /\ MapHas(session.pendingRequests, id)
    /\ \E q \in PendingAtMcp : q.ev.id = id /\ q.ev.pubkey = session.pk

\* C18: when send() is given a response whose id is no pending inbound
\* event id of any session, the transport calls onerror, publishes no
\* event and leaves every session as it was.
C18_UnknownResponseReported ==
    [][\A r \in PendingAtMcp :
          (/\ r \notin mcpInbox'
           /\ [r EXCEPT !.answered = TRUE] \in mcpInbox'
           /\ \A i \in DOMAIN clientSessions :
                  ~HoldsPending(clientSessions[i], r.msg.id))
          => /\ serverErrors' = serverErrors + 1
             /\ wire' = wire
             /\ clientSessions' = clientSessions]_vars

\* the events a broadcast of the local MCP server put on the wire
BroadcastEvents ==
    {w \in ByServer : /\ w.re = NoEvent
                      /\ MessageOf(w).method = "notifications/other"}

\* C19: a notification of the local MCP server that is not a routed
\* progress notification is published once to each client whose session is
\* initialized at that moment, tagged with p = that client and nothing
\* else, and to no client whose session is not initialized.
C19_BroadcastToInitialized ==
    [][broadcasts' = broadcasts + 1 =>
          /\ wire' \ wire \subseteq BroadcastEvents'
          /\ \A w \in wire' \ wire :
                 /\ InnerOf(w.ev).e = None
                 /\ ~InnerOf(w.ev).common
                 /\ w.ev.p = InnerOf(w.ev).p
                 /\ \E i \in DOMAIN clientSessions' :
                        clientSessions'[i].pk = InnerOf(w.ev).p
          /\ \A i \in DOMAIN clientSessions' :
                 Cardinality({w \in wire' \ wire :
                                 InnerOf(w.ev).p = clientSessions'[i].pk})
                     = IF clientSessions'[i].isInitialized THEN 1 ELSE 0]_vars

\* A broadcast has gone out while one session was initialized and another
\* was not.
C19_BroadcastSkipsUninitialized ==
    /\ broadcasts = 1
    /\ \E w \in BroadcastEvents : \E i, j \in DOMAIN clientSessions :
           /\ clientSessions[i].pk = InnerOf(w.ev).p
           /\ clientSessions[i].isInitialized
           /\ ~clientSessions[j].isInitialized

\* the server transport received event1 before event2 (events of one
\* publisher, inner events for gift wraps), going by the publications in w
ReceivedBefore(w, event1, event2) ==
    \E w1, w2 \in w : /\ w1.by = w2.by
                      /\ w1.by # "server"
                      /\ InnerOf(w1.ev) = event1
                      /\ InnerOf(w2.ev) = event2
                      /\ w1.n < w2.n

\* the requests of client pubkey that the server took earlier than event
\* and has not yet handed to the local MCP server
Overtaken(w, waiting, event) ==
    {ev \in waiting :
        /\ InnerOf(ev).pubkey = event.pubkey
        /\ IsAuthorized(InnerOf(ev))
        /\ isJSONRPCRequest(nostrEventToMcpMessage(InnerOf(ev)))
        /\ ReceivedBefore(w, InnerOf(ev), event)}

\* C20: the requests of one remote client reach the local MCP server in
\* the order in which the server transport received their events, for
\* cleartext events, gift wraps and any mix: when a request is delivered,
\* no request of the same client received before it is still undelivered.
C20_RequestsDeliveredInOrder ==
    [][\A r \in mcpInbox' \ mcpInbox :
          (/\ isJSONRPCRequest(r.msg)
           /\ \A q \in mcpInbox : q.ev # r.ev)
          => Overtaken(wire', decrypting', r.ev) = {}]_vars

C26_RetriesCapped ==
    \A url \in Relays : relayStates[url].retryCount <= maxRetries

BackoffIntervals == {1000, 2000, 4000, 8000, 16000, 30000}

\* C27: a relay's reconnectInterval is always 1, 2, 4, 8, 16 or 30 s, and it
\* goes down only when a connection attempt succeeded, which resets it to
\* 1 s.
C27_BackoffDoublesToCap ==
    [][\A url \in Relays :
          /\ relayStates'[url].reconnectInterval \in BackoffIntervals
          /\ relayStates'[url].reconnectInterval
                 < relayStates[url].reconnectInterval
             => /\ connected'[url]
                /\ relayStates'[url].reconnectInterval
                       = InitialReconnectInterval]_vars

\* C28: a publish that at least one relay accepted does not raise.
C28_PublishRaisesOnlyIfAllReject ==
    published.accepted # {} => ~published.raised

\* C21: the local MCP server is handed the request of an inbound event at
\* most once, however often the relays hand the event over.
C21_RequestDeliveredOnce ==
    \A r, q \in RequestsAtMcp : r.ev = q.ev => r = q

\* What the server has published about requests: responses and progress.
Answers == {w \in ByServer : w.re # NoEvent}

\* C24: once close() has completed, the server publishes nothing more in
\* answer to a request.
C24_NoAnswerAfterClose ==
    [][serverLife = "closed" => Answers' \subseteq Answers]_vars

\* The events a step publishes that the relays hand to the client
\* transport, with an e tag that is not in pendingRequestIds.
Unexpected(before, after) ==
    {w \in after \ before :
        /\ Subscribed(w.ev, ClientKey)
        /\ getNostrEventTag(InnerOf(w.ev), "e") # None
        /\ getNostrEventTag(InnerOf(w.ev), "e") \notin pendingRequestIds}

\* C22: an inbound event whose e tag is not in pendingRequestIds delivers
\* nothing to the client's upper layer and changes no state of the client
\* transport.
C22_UnknownETagChangesNothing ==
    [][Unexpected(wire, wire') # {} => UNCHANGED cliVars]_vars

\* The event ids of the requests the client transport has published.
PublishedRequestIds ==
    {InnerOf(w.ev).id : w \in {x \in wire :
        /\ x.by = "client"
        /\ isJSONRPCRequest(nostrEventToMcpMessage(InnerOf(x.ev)))
        /\ InnerOf(x.ev).id \notin publishing}}

\* The event ids a response delivered to the client's upper layer refers to.
AnsweredIds ==
    {clientInbox[i].ev.e : i \in {j \in DOMAIN clientInbox :
                                    isJSONRPCResponse(clientInbox[j].msg)}}

\* C23: pendingRequestIds holds exactly the event ids of the requests the
\* client has published and has not yet been delivered a response to.
C23_PendingAreOpenRequests ==
    pendingRequestIds = PublishedRequestIds \ AnsweredIds

\* The requests the bootstrap has handed to the local MCP server, in order.
BootRequests ==
    SelectSeq(announced, LAMBDA h : isJSONRPCRequest(h.msg))

\* C29: the bootstrap of a public server hands the local MCP server the
\* requests initialize, tools/list, resources/list,
\* resources/templates/list, prompts/list, each once, in that order, each
\* with the id "announcement".
C29_BootstrapRequestsOnceInOrder ==
    announcePc = "done"
        => /\ Len(BootRequests) = Len(announcementMethods)
           /\ \A i \in DOMAIN BootRequests :
                  /\ BootRequests[i].msg.method = announcementMethods[i]
                  /\ BootRequests[i].msg.id = AnnouncementId

\* The events with a content that is not JSON whose processing by the
\* server ends in this step: cleartext ones as they are published, wrapped
\* ones as their decryption resolves.
NotJsonProcessed(wireBefore, wireAfter, decryptingBefore, decryptingAfter) ==
    {w.ev : w \in {x \in wireAfter \ wireBefore :
                      /\ Subscribed(x.ev, ServerKey)
                      /\ x.ev.kind # GIFT_WRAP_KIND
                      /\ x.ev.content[1] = "text"}}
    \cup {event \in decryptingBefore \ decryptingAfter :
              /\ CanDecrypt(event, ServerKey)
              /\ decryptMessage(event).content[1] = "text"}

\* Whether the server has been handed an event whose content is not JSON.
SawNotJson ==
    \E w \in wire : /\ Subscribed(w.ev, ServerKey)
                     /\ InnerOf(w.ev).content[1] = "text"

\* The cleartext requests of authorized keys published in this step.
ValidPublished(wireBefore, wireAfter) ==
    {w.ev : w \in {x \in wireAfter \ wireBefore :
                      /\ Subscribed(x.ev, ServerKey)
                      /\ x.ev.kind # GIFT_WRAP_KIND
                      /\ isJSONRPCRequest(nostrEventToMcpMessage(x.ev))
                      /\ IsAuthorized(x.ev)}}

\* C30: an inbound event whose content is not valid JSON creates or updates
\* no session, delivers nothing and leaves the subscription open, and a
\* valid request received after it is handed to the local MCP server.
C30_NotJsonDropped ==
    [][/\ NotJsonProcessed(wire, wire', decrypting, decrypting') # {}
          => UNCHANGED <<clientSessions, nextSid, mcpInbox, serverLife>>
       /\ SawNotJson /\ serverMode # "required" /\ serverLife = "started"
          => \A event \in ValidPublished(wire, wire') :
                 \E r \in mcpInbox' : r.ev = event]_vars

\* A request was delivered after an event that is not JSON was dropped.
C30_ValidAfterNotJson ==
    \E w1, w2 \in wire :
        /\ w1.by = "raw" /\ w2.by = "raw"
        /\ w1.n < w2.n
        /\ InnerOf(w1.ev).content[1] = "text"
        /\ w1.ev \notin decrypting
        /\ \E r \in mcpInbox : r.ev = InnerOf(w2.ev)
        /\ \A r \in mcpInbox : r.ev # InnerOf(w1.ev)

\* C33: for each relay at most one call of handleDisconnectedRelay is in
\* flight (asleep for its backoff or awaiting the connection) at any time.
C33_OneReconnectionPerRelay ==
    \A url \in Relays : Cardinality({h \in handlers : h.url = url}) <= 1

\* The calls of handleDisconnectedRelay that are making a connection attempt.
Attempts == {h \in handlers : h.pc = "connect"}

\* C35: while the pool is disconnected (disconnect() has completed and
\* connect() has not been called since) no connection attempt is begun, so
\* that no subscription is re-issued either.
C35_QuietAfterDisconnect ==
    [][poolLife = "disconnected" /\ poolLife' = "disconnected"
          => \A h \in Attempts' : h \in Attempts]_vars

\* C36: while the pool is in use, the periodic reconnection check is
\* scheduled.
C36_ReconnectLoopActive ==
    poolLife # "disconnected" => timerAt # NoTimer

\* C37: once close() has completed the session map is empty and stays
\* empty, and nothing more is delivered to the local MCP server.
C37_ClosedStaysEmpty ==
    serverLife = "closed" => clientSessions = <<>>

\* C40: in a session's pending map the event-id entry of every request of
\* its client that is still awaiting its response is present and holds
\* the JSON-RPC id the client wrote: no progress token recorded or cleared
\* for another request overwrites or removes it.
C40_KeysDoNotInterfere ==
    \A i \in DOMAIN clientSessions : \A q \in PendingAtMcp :
        q.ev.pubkey = clientSessions[i].pk
            => /\ MapHas(clientSessions[i].pendingRequests, q.ev.id)
               /\ MapGet(clientSessions[i].pendingRequests, q.ev.id)
                      = nostrEventToMcpMessage(q.ev).id

\* C39: every message the client transport delivered to its upper layer
\* came in an event (the inner event, for a gift wrap) authored by the
\* configured server public key.
C39_OnlyServerAuthoredDelivered ==
    \A i \in DOMAIN clientInbox : clientInbox[i].ev.pubkey = ServerKey

\* the events of client pk that the server received and took as far as
\* getOrCreateClientSession
AuthorizedInbound(pk) ==
    {w \in wire : /\ w.by # "server"
                  /\ Subscribed(w.ev, ServerKey)
                  /\ w.ev \notin decrypting
                  /\ IF w.ev.kind = GIFT_WRAP_KIND
                     THEN serverMode # "disabled" /\ CanDecrypt(w.ev, ServerKey)
                     ELSE serverMode # "required"
                  /\ InnerOf(w.ev).pubkey = pk
                  /\ IsAuthorized(InnerOf(w.ev))
                  /\ nostrEventToMcpMessage(InnerOf(w.ev)) # NullMsg}

\* C32: when no decryption is pending, a session's isEncrypted tells
\* whether the event its client published last, among those the server
\* received and authorized, was gift-wrapped.
C32_IsEncryptedFollowsLatest ==
    decrypting = {} =>
        \A i \in DOMAIN clientSessions :
            \A w \in AuthorizedInbound(clientSessions[i].pk) :
                (\A x \in AuthorizedInbound(clientSessions[i].pk) : x.n <= w.n)
                    => clientSessions[i].isEncrypted
                           = (w.ev.kind = GIFT_WRAP_KIND)

\* C34: no step removes a session that holds a request of its client which
\* the local MCP server has not answered yet.
C34_PendingSessionKept ==
    [][\A i \in DOMAIN clientSessions :
          (\E q \in PendingAtMcp : HoldsPending(clientSessions[i], q.ev.id))
              => \E j \in DOMAIN clientSessions' :
                     clientSessions'[j].sid = clientSessions[i].sid]_vars

\* C31: no event a transport of the SDK published carries a message whose
\* serialized size exceeds 1 MiB, and no such message was delivered to the
\* upper layer of the client or of the server.
C31_NoOversizeMessage ==
    /\ \A w \in wire : w.by # "raw" => validateMessageSize(MessageOf(w))
    /\ \A i \in DOMAIN clientInbox : validateMessageSize(clientInbox[i].msg)
    /\ \A r \in mcpInbox : validateMessageSize(r.msg)

\* C38: every message the gateway forwarded to the local MCP transport was
\* forwarded after that transport's start() had completed.
C38_ForwardedAfterMcpStart ==
    gatewayPc # "idle" => \A i \in DOMAIN announced : announced[i].started

====
